---- MODULE Spec2Model ----
(***************************************************************************)
(* Model of django_elasticsearch_dsl/signals.py: the signal processors     *)
(* that forward Django model signals (post_save, post_delete, m2m_changed) *)
(* to the document registry.                                               *)
(*                                                                         *)
(* Django delivers a signal synchronously: send() calls the connected      *)
(* receivers one after the other in connection order, and an exception     *)
(* raised by a receiver propagates out of send().  One bus event together  *)
(* with everything its handlers do is therefore one atomic step.           *)
(***************************************************************************)
EXTENDS Integers, Sequences, FiniteSets, TLC

MaxProc == 2
MaxInst == 2

Procs == 1..MaxProc
Instances == 1..MaxInst

(***************************************************************************)
(* Python str values of the m2m_changed `action` argument, as tuples of    *)
(* characters, so that `in` on a str is the substring test Python makes.   *)
(***************************************************************************)
post_add == <<"p", "o", "s", "t", "_", "a", "d", "d">>
post_remove == <<"p", "o", "s", "t", "_", "r", "e", "m", "o", "v", "e">>
post_clear == <<"p", "o", "s", "t", "_", "c", "l", "e", "a", "r">>
pre_add == <<"p", "r", "e", "_", "a", "d", "d">>
pre_remove == <<"p", "r", "e", "_", "r", "e", "m", "o", "v", "e">>
pre_clear == <<"p", "r", "e", "_", "c", "l", "e", "a", "r">>
empty_str == <<>>
add_str == <<"a", "d", "d">>
post_str == <<"p", "o", "s", "t">>

\* The action values sent on the bus: Django's six, and other strings.
M2MActions ==
  {post_add, post_remove, post_clear, pre_add, pre_remove, pre_clear,
   empty_str, add_str, post_str}

\* Python `x in s` for a str s: x is a contiguous part of s.
StrContains(s, x) ==
  \E k \in 0..(Len(s) - Len(x)) : SubSeq(s, k + 1, k + Len(x)) = x

\* Python `x in t` for a tuple t: x equals one of its elements.
TupleContains(t, x) == \E k \in 1..Len(t) : t[k] = x

(***************************************************************************)
(* The registry (from .registries import registry).  A call is issued by a *)
(* processor for an instance and either returns or raises.                 *)
(***************************************************************************)
RegistryOps == {"update", "update_related", "delete_related", "delete"}

\* Which registry operations raise during one event.  A handler stops at
\* its first raising call and send() stops at the first raising receiver,
\* so one raising operation per event covers every outcome.
FaultScenarios == {{}} \cup {{op} : op \in RegistryOps}

\* The calls a handler body makes, statement by statement, up to and
\* including the first one that raises.
Issue(self, ops, instance, raises) ==
  LET bad == {k \in 1..Len(ops) : ops[k] \in raises}
      n == IF bad = {} THEN Len(ops)
           ELSE CHOOSE k \in bad : \A j \in bad : k <= j
  IN [calls |-> [k \in 1..n |->
                   [by |-> self, op |-> ops[k], inst |-> instance,
                    raised |-> ops[k] \in raises]],
      raised |-> bad # {}]

NoCalls == [calls |-> <<>>, raised |-> FALSE]

handle_save(self, instance, raises) ==
  Issue(self, <<"update", "update_related">>, instance, raises)

handle_delete_swapped(self, instance, raises) ==
  Issue(self, <<"delete", "delete_related">>, instance, raises)

handle_delete(self, instance, raises) ==
  Issue(self, <<"delete_related", "delete">>, instance, raises)

handle_m2m_changed_no_clear(self, instance, action, raises) ==
  IF StrContains(post_add, action)
    THEN handle_save(self, instance, raises)
    ELSE IF TupleContains(<<post_remove>>, action)
      THEN handle_delete(self, instance, raises)
      ELSE NoCalls

\* ('post_add') is a parenthesised str, not a tuple: the first test is a
\* substring test.  ('post_remove', 'post_clear') is a tuple.
handle_m2m_changed(self, instance, action, raises) ==
  IF StrContains(post_add, action)
    THEN handle_save(self, instance, raises)
    ELSE IF TupleContains(<<post_remove, post_clear>>, action)
      THEN handle_delete(self, instance, raises)
      ELSE NoCalls

(***************************************************************************)
(* Classes and method resolution.                                          *)
(***************************************************************************)
ProcessorClasses == {"BaseSignalProcessor", "RealTimeSignalProcessor"}

\* The methods each class body defines.
Defines(c) ==
  CASE c = "BaseSignalProcessor" ->
         {"__init__", "setup", "teardown", "handle_m2m_changed",
          "handle_save", "handle_delete"}
    [] c = "DjangoSignalsMixin" -> {"setup", "teardown"}
    [] c = "RealTimeSignalProcessor" -> {}

MRO_base_first(c) ==
  CASE c = "BaseSignalProcessor" -> <<"BaseSignalProcessor">>
    [] c = "DjangoSignalsMixin" -> <<"DjangoSignalsMixin">>
    [] c = "RealTimeSignalProcessor" ->
         <<"RealTimeSignalProcessor", "BaseSignalProcessor",
           "DjangoSignalsMixin">>

\* class RealTimeSignalProcessor(DjangoSignalsMixin, BaseSignalProcessor)
MRO(c) ==
  CASE c = "BaseSignalProcessor" -> <<"BaseSignalProcessor">>
    [] c = "DjangoSignalsMixin" -> <<"DjangoSignalsMixin">>
    [] c = "RealTimeSignalProcessor" ->
         <<"RealTimeSignalProcessor", "DjangoSignalsMixin",
           "BaseSignalProcessor">>

\* The class whose definition of method m an instance of class c runs.
Resolve(c, m) ==
  LET mro == MRO(c)
      k == CHOOSE i \in 1..Len(mro) :
             /\ m \in Defines(mro[i])
             /\ \A j \in 1..(i - 1) : m \notin Defines(mro[j])
  IN mro[k]

(***************************************************************************)
(* The signal bus: models.signals.post_save / post_delete / m2m_changed.   *)
(* A receiver is a bound method <<processor, method name>>; connect keeps  *)
(* one entry per bound method, disconnect removes it.                      *)
(***************************************************************************)
Signals == {"post_save", "post_delete", "m2m_changed"}

Connect(rs, r) ==
  IF \E k \in 1..Len(rs) : rs[k] = r THEN rs ELSE Append(rs, r)

Disconnect(rs, r) == SelectSeq(rs, LAMBDA x : x # r)

BaseSetup(self, recv) == recv

MixinSetup(self, recv) ==
  [recv EXCEPT
     !["post_save"] = Connect(@, <<self, "handle_save">>),
     !["post_delete"] = Connect(@, <<self, "handle_delete">>),
     !["m2m_changed"] = Connect(@, <<self, "handle_m2m_changed">>)]

BaseTeardown(self, recv) == recv

MixinTeardown_keeps_m2m(self, recv) ==
  [recv EXCEPT
     !["post_save"] = Disconnect(@, <<self, "handle_save">>),
     !["post_delete"] = Disconnect(@, <<self, "handle_delete">>)]

MixinTeardown(self, recv) ==
  [recv EXCEPT
     !["post_save"] = Disconnect(@, <<self, "handle_save">>),
     !["post_delete"] = Disconnect(@, <<self, "handle_delete">>),
     !["m2m_changed"] = Disconnect(@, <<self, "handle_m2m_changed">>)]

\* self.setup() / self.teardown() on an instance of class c.
CallSetup(c, self, recv) ==
  IF Resolve(c, "setup") = "DjangoSignalsMixin"
    THEN MixinSetup(self, recv)
    ELSE BaseSetup(self, recv)

CallTeardown(c, self, recv) ==
  IF Resolve(c, "teardown") = "DjangoSignalsMixin"
    THEN MixinTeardown(self, recv)
    ELSE BaseTeardown(self, recv)

\* Calling one connected receiver with the signal's arguments.
Invoke(r, instance, action, raises) ==
  CASE r[2] = "handle_save" -> handle_save(r[1], instance, raises)
    [] r[2] = "handle_delete" -> handle_delete(r[1], instance, raises)
    [] r[2] = "handle_m2m_changed" ->
         handle_m2m_changed(r[1], instance, action, raises)

\* Signal.send: the receivers in connection order; the first exception
\* propagates and the remaining receivers are not called.
RECURSIVE SendFrom(_, _, _, _, _)
SendFrom(rs, k, instance, action, raises) ==
  IF k > Len(rs) THEN <<>>
  ELSE LET res == Invoke(rs[k], instance, action, raises)
       IN IF res.raised THEN res.calls
          ELSE res.calls \o SendFrom(rs, k + 1, instance, action, raises)

(***************************************************************************)
(* The search index behind the registry, as the set of instances that have *)
(* a document.  update writes the instance's document, delete removes it,  *)
(* update_related and delete_related rewrite the documents of the related  *)
(* instances; a call that raised changed nothing.                          *)
(***************************************************************************)
ApplyCall(idx, c, rel) ==
  IF c.raised THEN idx
  ELSE CASE c.op = "update" -> idx \cup {c.inst}
         [] c.op = "update_related" -> idx \cup rel
         [] c.op = "delete_related" -> idx \cup rel
         [] c.op = "delete" -> idx \ {c.inst}

RECURSIVE ApplyCalls(_, _, _)
ApplyCalls(idx, cs, rel) ==
  IF cs = <<>> THEN idx
  ELSE ApplyCalls(ApplyCall(idx, Head(cs), rel), Tail(cs), rel)

VARIABLES
  cls,        \* class of each constructed processor, "none" before
  receivers,  \* the receivers connected to each signal, in order
  store,      \* the instances that exist in the record store
  index,      \* the instances that have a document in the index
  calls,      \* the registry calls made during the last step
  lastOp      \* the last step: what happened and with which arguments

vars == <<cls, receivers, store, index, calls, lastOp>>

NoOp ==
  [kind |-> "init", proc |-> 0, inst |-> 0, action |-> <<>>, ran |-> <<>>]

Init ==
  /\ cls = [p \in Procs |-> "none"]
  /\ receivers = [s \in Signals |-> <<>>]
  /\ store = {}
  /\ index = {}
  /\ calls = <<>>
  /\ lastOp = NoOp

\* BaseSignalProcessor.__init__, inherited by every processor class.
Construct(p, c) ==
  /\ cls[p] = "none"
  /\ cls' = [cls EXCEPT ![p] = c]
  /\ receivers' = CallSetup(c, p, receivers)
  /\ calls' = <<>>
  /\ lastOp' = [NoOp EXCEPT !.kind = "construct", !.proc = p,
                            !.ran = <<Resolve(c, "setup")>>]
  /\ UNCHANGED <<store, index>>

Setup(p) ==
  /\ cls[p] # "none"
  /\ receivers' = CallSetup(cls[p], p, receivers)
  /\ calls' = <<>>
  /\ lastOp' = [NoOp EXCEPT !.kind = "setup", !.proc = p,
                            !.ran = <<Resolve(cls[p], "setup")>>]
  /\ UNCHANGED <<cls, store, index>>

Teardown(p) ==
  /\ cls[p] # "none"
  /\ receivers' = CallTeardown(cls[p], p, receivers)
  /\ calls' = <<>>
  /\ lastOp' = [NoOp EXCEPT !.kind = "teardown", !.proc = p,
                            !.ran = <<Resolve(cls[p], "teardown")>>]
  /\ UNCHANGED <<cls, store, index>>

\* One signal sent on the bus and handled by every connected receiver.
Deliver(signal, i, action, raises, rel) ==
  LET cs == SendFrom(receivers[signal], 1, i, action, raises)
  IN /\ calls' = cs
     /\ index' = ApplyCalls(index, cs, rel)
     /\ lastOp' = [NoOp EXCEPT !.kind = signal, !.inst = i,
                               !.action = action]
     /\ UNCHANGED <<cls, receivers>>

\* Model.save(): the record is created or updated, then post_save is sent.
PostSave(i, raises, rel) ==
  /\ rel \subseteq store \ {i}
  /\ store' = store \cup {i}
  /\ Deliver("post_save", i, <<>>, raises, rel)

\* Model.delete(): the record is removed, then post_delete is sent.
PostDelete(i, raises, rel) ==
  /\ i \in store
  /\ rel \subseteq store \ {i}
  /\ store' = store \ {i}
  /\ Deliver("post_delete", i, <<>>, raises, rel)

\* A many-to-many relation of an existing record changes.
M2MChanged(i, action, raises, rel) ==
  /\ i \in store
  /\ rel \subseteq store \ {i}
  /\ store' = store
  /\ Deliver("m2m_changed", i, action, raises, rel)

Next ==
  \/ \E p \in Procs, c \in ProcessorClasses : Construct(p, c)
  \/ \E p \in Procs : Setup(p)
  \/ \E p \in Procs : Teardown(p)
  \/ \E i \in Instances, raises \in FaultScenarios, rel \in SUBSET Instances :
       PostSave(i, raises, rel)
  \/ \E i \in Instances, raises \in FaultScenarios, rel \in SUBSET Instances :
       PostDelete(i, raises, rel)
  \/ \E i \in Instances, action \in M2MActions, raises \in FaultScenarios,
        rel \in SUBSET Instances :
       M2MChanged(i, action, raises, rel)

Spec == Init /\ [][Next]_vars

(***************************************************************************)
(* Vocabulary of the properties.                                           *)
(***************************************************************************)
HandlerOf(signal) ==
  CASE signal = "post_save" -> "handle_save"
    [] signal = "post_delete" -> "handle_delete"
    [] signal = "m2m_changed" -> "handle_m2m_changed"

\* p's handler is connected to the signal.
Subscribed(p, signal) ==
  \E k \in 1..Len(receivers[signal]) :
    receivers[signal][k] = <<p, HandlerOf(signal)>>

\* The operations p issued during the last step, in order.
OpsBy(p) ==
  LET mine == SelectSeq(calls, LAMBDA c : c.by = p)
  IN [k \in 1..Len(mine) |-> mine[k].op]

\* The registry operations that raised during the last step.
Raised == {calls[k].op : k \in {j \in 1..Len(calls) : calls[j].raised}}

\* The last step was an event that send() routes to handle_delete, directly
\* or through handle_m2m_changed.
DeleteEvent ==
  \/ lastOp.kind = "post_delete"
  \/ /\ lastOp.kind = "m2m_changed"
     /\ lastOp.action \in {post_remove, post_clear}

\* The receivers of the signal with another handler in place of their own.
WithHandler(rs, h) == [k \in 1..Len(rs) |-> <<rs[k][1], h>>]

\* C1: while a RealTimeSignalProcessor is subscribed, every post_save event
\* makes it issue exactly update(instance) and then update_related(instance),
\* and nothing else.
C1_SaveIssuesUpdateThenRelated ==
  lastOp.kind = "post_save" =>
    \A p \in Procs :
      Subscribed(p, "post_save") =>
        /\ OpsBy(p) = <<"update", "update_related">>
        /\ \A k \in 1..Len(calls) : calls[k].inst = lastOp.inst

\* C2: a delete event makes every subscribed processor issue exactly one
\* registry.delete for the instance, and neither update nor update_related.
C2_DeleteIssuesOneDelete ==
  DeleteEvent =>
    \A p \in Procs :
      Subscribed(p, lastOp.kind) =>
        /\ Cardinality({k \in 1..Len(calls) :
                          /\ calls[k].by = p
                          /\ calls[k].op = "delete"
                          /\ calls[k].inst = lastOp.inst}) = 1
        /\ \A k \in 1..Len(calls) :
             calls[k].by = p => calls[k].op \notin {"update", "update_related"}

\* C3: an m2m_changed event with action 'post_add' produces the registry
\* calls that handle_save produces for the same processors, instance and
\* registry outcome; with 'post_remove' or 'post_clear' those of
\* handle_delete.
C3_M2MSameAsSaveOrDelete ==
  lastOp.kind = "m2m_changed" =>
    /\ lastOp.action = post_add =>
         calls = SendFrom(WithHandler(receivers["m2m_changed"], "handle_save"),
                          1, lastOp.inst, lastOp.action, Raised)
    /\ lastOp.action \in {post_remove, post_clear} =>
         calls = SendFrom(WithHandler(receivers["m2m_changed"],
                                      "handle_delete"),
                          1, lastOp.inst, lastOp.action, Raised)

C3_Witness ==
  /\ lastOp.kind = "m2m_changed"
  /\ lastOp.action = post_clear
  /\ Len(calls) = 2
  /\ Raised = {}

\* C4: an event that a subscribed processor handles with every registry
\* call succeeding keeps the index consistent with the record store: the
\* instances with a document are exactly the instances that exist.
C4_IndexStaysConsistent ==
  [][(/\ lastOp'.kind \in Signals
      /\ receivers[lastOp'.kind] # <<>>
      /\ \A k \in 1..Len(calls') : ~calls'[k].raised
      /\ index = store)
     => index' = store']_vars

\* C5: on m2m_changed with 'post_remove' or 'post_clear' no registry.delete
\* is issued for the instance whose relation changed.
C5_M2MRemoveSparesOwner ==
  (lastOp.kind = "m2m_changed" /\ lastOp.action \in {post_remove, post_clear})
    => \A k \in 1..Len(calls) :
         ~(calls[k].op = "delete" /\ calls[k].inst = lastOp.inst)

\* C6: teardown() leaves none of the processor's three handlers connected,
\* and a registry call during an event is only ever made by a processor
\* whose handler is connected to that event's signal.
C6_TeardownUnsubscribes ==
  /\ lastOp.kind = "teardown" =>
       \A s \in Signals : \A k \in 1..Len(receivers[s]) :
         receivers[s][k][1] # lastOp.proc
  /\ lastOp.kind \in Signals =>
       \A k \in 1..Len(calls) : Subscribed(calls[k].by, lastOp.kind)

C6_Witness ==
  /\ lastOp.kind \in Signals
  /\ calls # <<>>
  /\ \E p \in Procs :
       /\ cls[p] = "RealTimeSignalProcessor"
       /\ \A s \in Signals : ~Subscribed(p, s)

\* C7: constructing a RealTimeSignalProcessor runs DjangoSignalsMixin.setup
\* once and leaves its three handlers connected; a BaseSignalProcessor is
\* never connected to a signal and never issues a registry call.
C7_ConstructionSubscribes ==
  /\ (lastOp.kind = "construct"
      /\ cls[lastOp.proc] = "RealTimeSignalProcessor") =>
       /\ lastOp.ran = <<"DjangoSignalsMixin">>
       /\ \A s \in Signals : Subscribed(lastOp.proc, s)
  /\ \A p \in Procs :
       cls[p] = "BaseSignalProcessor" =>
         /\ \A s \in Signals : \A k \in 1..Len(receivers[s]) :
              receivers[s][k][1] # p
         /\ OpsBy(p) = <<>>

C7_Witness ==
  /\ lastOp.kind = "construct"
  /\ cls[lastOp.proc] = "RealTimeSignalProcessor"
  /\ \E p \in Procs : cls[p] = "BaseSignalProcessor"

\* C8 as stated: on a delete event the delete of the instance is issued
\* first, and the operation on its related instances only after it.
C8_DeleteBeforeRelated ==
  DeleteEvent =>
    \A k \in 1..Len(calls) :
      calls[k].op = "delete_related" =>
        \E j \in 1..(k - 1) :
          calls[j].by = calls[k].by /\ calls[j].op = "delete"

\* C8 amended: on a delete event delete_related(instance) is issued first,
\* and delete(instance) only after delete_related returned.
C8_RelatedBeforeDelete ==
  \A k \in 1..Len(calls) :
    calls[k].op = "delete" =>
      /\ DeleteEvent
      /\ \E j \in 1..(k - 1) :
           /\ calls[j].by = calls[k].by
           /\ calls[j].op = "delete_related"
           /\ calls[j].inst = calls[k].inst
           /\ ~calls[j].raised

C8_Witness ==
  /\ lastOp.kind = "post_delete"
  /\ \E k \in 1..Len(calls) : calls[k].op = "delete"

\* C9: a failing registry.update does not prevent the same handler's
\* update_related, and a failing delete_related does not prevent its delete.
C9_FailuresIsolated ==
  \A k \in 1..Len(calls) :
    /\ (calls[k].raised /\ calls[k].op = "update") =>
         \E j \in (k + 1)..Len(calls) :
           calls[j].by = calls[k].by /\ calls[j].op = "update_related"
    /\ (calls[k].raised /\ calls[k].op = "delete_related") =>
         \E j \in (k + 1)..Len(calls) :
           calls[j].by = calls[k].by /\ calls[j].op = "delete"

\* C10: handle_m2m_changed makes no registry call for an action other than
\* exactly 'post_add', 'post_remove' or 'post_clear'.
C10_OtherActionsNoCall ==
  (lastOp.kind = "m2m_changed"
   /\ lastOp.action \notin {post_add, post_remove, post_clear})
    => calls = <<>>

====
